---- MODULE Spec2Model ----
(***************************************************************************)
(* The watch-and-verify engine of starklings: verify (src/src/verify.rs),  *)
(* watch and spawn_watch_shell (src/src/main.rs).                         *)
(*                                                                         *)
(* The coordinator (the thread running watch) and the shell thread are    *)
(* two processes; the user editing files and the filesystem watcher        *)
(* sending events are the environment.                                     *)
(***************************************************************************)
EXTENDS Integers, Sequences, FiniteSets, TLC

\* ------------------------------------------------------------------ bounds
\* Number of exercises in the manifest (info.toml).
NumExercises == 2
\* Events the channel holds before the environment stops producing more.
MaxQueue == 1

\* ---------------------------------------------------------------- manifest
ExerciseIds == 1 .. NumExercises

\* The file extension watch recognises.
CairoExt == "cairo"

\* exercises: the manifest loaded once in main, immutable afterwards. The
\* name is the index, modes alternate, every exercise has its own hint text.
exercises ==
    [e \in ExerciseIds |->
        [name |-> e,
         path |-> [stem |-> e, ext |-> CairoExt],
         mode |-> IF e % 2 = 1 THEN "Compile" ELSE "Test",
         hint |-> <<"hint of", e>>]]

\* The manifest as the ordered sequence exercises.iter() walks.
ManifestOrder == [i \in ExerciseIds |-> i]

Total == Len(ManifestOrder)

\* Paths an event can carry: every exercise file, a .cairo file that is no
\* exercise of the manifest, and a file without the recognised extension.
Paths ==
    {exercises[e].path : e \in ExerciseIds}
        \cup {[stem |-> 0, ext |-> CairoExt], [stem |-> 0, ext |-> "md"]}

\* DebouncedEvent variants; Remove stands for every variant the match in
\* watch sends to its `_ => {}` arm.
Kinds == {"Create", "Chmod", "Write", "Remove"}

\* An event as recv_timeout delivers it; exists is what b.exists() answers
\* then.
Events == [kind : Kinds, path : Paths, exists : BOOLEAN]

VARIABLES
    compiles,       \* compiles[e]: the toolchain run of e succeeds right now
    marker,         \* marker[e]: the source of e contains "I AM NOT DONE"
    queue,          \* number of events in the mpsc channel (tx to rx)
    watcher,        \* the filesystem watcher: none, failed, watching, dead
    event,          \* the event recv_timeout returned, while it is matched
    pc,             \* position of the coordinator (main thread in watch)
    outcome,        \* what watch returned: none, Finished, Unfinished, Err
    pass_kind,      \* which call of verify is running or ran last
    seq,            \* verify: the exercises argument
    idx,            \* verify: position of the for loop in seq (1-based)
    num_done,       \* verify: progress.0
    pos,            \* verify: position of the progress bar
    msg,            \* verify: message of the progress bar (tenths of a percent)
    invoked,        \* verify: toolchain invocations of this pass, in order
    ret,            \* verify: return value of the latest pass
    current_hint,   \* failed_exercise_hint: Option<String> inside the Mutex
    lock,           \* holder of the failed_exercise_hint Mutex
    should_quit,    \* the AtomicBool should_quit
    shell_pc,       \* position of the shell thread
    exit_status,    \* exit status of the process, once it has exited
    first_run,      \* re-run of verify: result and invocations of the first run
    untouched       \* re-run of verify: no file changed since the first run began

vars ==
    <<compiles, marker, queue, watcher, event, pc, outcome, pass_kind, seq,
      idx, num_done, pos, msg, invoked, ret, current_hint, lock, should_quit,
      shell_pc, exit_status, first_run, untouched>>

envVars == <<compiles, marker, queue, watcher>>
frameVars == <<pass_kind, seq, idx, num_done, pos, msg, invoked, ret>>
sharedVars == <<current_hint, lock, should_quit>>
auxVars == <<exit_status, first_run, untouched>>

\* Option<T>: None is the empty set, Some(x) the singleton.
None == {}
Some(x) == {x}

\* Result<(), &Exercise> of verify, and "running" while it has not returned.
Running == [tag |-> "running"]
Ok == [tag |-> "Ok"]
Err(e) == [tag |-> "Err", exercise |-> e]

\* ------------------------------------------------------- exercise, verify
\* Exercise::state(): Done when the marker is absent, Pending otherwise.
state(e) == IF marker[e] THEN "Pending" ELSE "Done"

\* Exercise::looks_done(): state() == State::Done.
looks_done(e) == state(e) = "Done"

\* exercise.run_cairo() / exercise.test_cairo(): Ok(output) or Err(error).
run_cairo(e) == compiles[e]
test_cairo(e) == compiles[e]

\* Mutant: the marker is not looked at, a successful run counts as done.
prompt_for_completion_IgnoresMarker(e) == TRUE

\* prompt_for_completion: true exactly when the exercise state is Done.
prompt_for_completion(e) == state(e) = "Done"

\* compile_and_run_interactively: Err(()) when the run fails, else
\* Ok(prompt_for_completion). Options are sets: {} is Err(()).
compile_and_run_interactively(e) ==
    IF run_cairo(e) THEN Some(prompt_for_completion(e)) ELSE None

\* compile_and_test_interactively, the same for the test harness.
compile_and_test_interactively(e) ==
    IF test_cairo(e) THEN Some(prompt_for_completion(e)) ELSE None

\* let compile_result = match exercise.mode { ... }
compile_result(e) ==
    IF exercises[e].mode = "Compile"
    THEN compile_and_run_interactively(e)
    ELSE compile_and_test_interactively(e)

\* Mutant: the negation in `if !compile_result.unwrap_or(false)` is lost.
unwrap_or_false_Negated(r) == IF r = None THEN TRUE ELSE ~(CHOOSE b \in r : TRUE)

\* Mutant: unwrap_or(true), a failed toolchain run counts as a success.
unwrap_or_true(r) == IF r = None THEN TRUE ELSE CHOOSE b \in r : TRUE

\* compile_result.unwrap_or(false)
unwrap_or_false(r) == IF r = None THEN FALSE ELSE CHOOSE b \in r : TRUE

\* What one toolchain invocation found, for the record kept in invoked:
\* the three outcomes of the per-exercise state machine.
InvocationOutcome(e) ==
    IF ~compiles[e] THEN "CompileFailure"
    ELSE IF marker[e] THEN "StillPending" ELSE "Done"

\* percentage = num_done / total * 100, shown with one decimal.
percentage(n) == (n * 1000) \div Total

\* ------------------------------------------------------------------ watch
to_owned_hint(e) == exercises[e].hint

\* filepath.ends_with(&e.path)
ends_with(filepath, e) == filepath = exercises[e].path

\* exercises.iter().find(|e| filepath.ends_with(&e.path)).into_iter()
find(filepath) ==
    LET hits == {e \in ExerciseIds : ends_with(filepath, e)}
    IN  IF hits = {} THEN <<>>
        ELSE <<CHOOSE e \in hits : \A f \in hits : e <= f>>

\* Mutant: the filter does not leave out the changed exercise.
filter_pending_KeepsChanged(filepath) ==
    SelectSeq(ManifestOrder, LAMBDA e : ~looks_done(e))

\* exercises.iter().filter(|e| !e.looks_done() && !filepath.ends_with(&e.path))
filter_pending(filepath) ==
    SelectSeq(ManifestOrder,
              LAMBDA e : ~looks_done(e) /\ ~ends_with(filepath, e))

\* Mutant: the changed exercise is not moved to the front.
pending_exercises_NoReorder(filepath) ==
    SelectSeq(ManifestOrder, LAMBDA e : ~looks_done(e))

\* pending_exercises: find(..).into_iter().chain(filter(..))
pending_exercises(filepath) == find(filepath) \o filter_pending(filepath)

\* exercises.iter().filter(|e| e.looks_done()).count()
count_done == Cardinality({e \in ExerciseIds : looks_done(e)})

\* Mutant: b.exists() is not checked.
actionable_NoExistsCheck(ev) ==
    /\ ev.kind \in {"Create", "Chmod", "Write"}
    /\ ev.path.ext = CairoExt

\* The guard of the verification pass in the event arm: variant, extension
\* and b.exists() at delivery time.
actionable(ev) ==
    /\ ev.kind \in {"Create", "Chmod", "Write"}
    /\ ev.path.ext = CairoExt
    /\ ev.exists

\* Mutant: the flag is never looked at.
quit_observed_Never == FALSE

\* should_quit.load(Ordering::SeqCst)
quit_observed == should_quit

Live == pc \notin {"done", "error", "exited"}

\* ------------------------------------------------------------------- Init
Init ==
    /\ compiles \in [ExerciseIds -> BOOLEAN]
    /\ marker \in [ExerciseIds -> BOOLEAN]
    /\ queue = 0
    /\ watcher = "none"
    /\ event = None
    /\ pc = "start"
    /\ outcome = "none"
    /\ pass_kind = "none"
    /\ seq = <<>>
    /\ idx = 0
    /\ num_done = 0
    /\ pos = 0
    /\ msg = None
    /\ invoked = <<>>
    /\ ret = Running
    /\ current_hint = None
    /\ lock = "free"
    /\ should_quit = FALSE
    /\ shell_pc = "off"
    /\ exit_status = None
    /\ first_run = None
    /\ untouched = TRUE

\* ------------------------------------------------------------ environment
\* The learner saves a changed exercise file: the toolchain result and the
\* marker of one exercise take new values.
UserEdit ==
    /\ Live
    /\ \E e \in ExerciseIds, c \in BOOLEAN, m \in BOOLEAN :
          /\ <<c, m>> # <<compiles[e], marker[e]>>
          /\ compiles' = [compiles EXCEPT ![e] = c]
          /\ marker' = [marker EXCEPT ![e] = m]
    /\ UNCHANGED auxVars
    /\ UNCHANGED <<queue, watcher, event, pc, outcome, frameVars, sharedVars,
                   shell_pc>>

\* The watcher sends a debounced event into the channel. Which event it is
\* shows when it is received.
WatcherSend ==
    /\ Live
    /\ watcher = "watching"
    /\ queue < MaxQueue
    /\ queue' = queue + 1
    /\ UNCHANGED auxVars
    /\ UNCHANGED <<compiles, marker, watcher, event, pc, outcome, frameVars,
                   sharedVars, shell_pc>>

\* ----------------------------------------------------------------- verify
\* Mutant: a second call goes on where the previous one stopped instead of
\* walking the sequence from its start.
EnterVerify_Resumes(kind, s, n) ==
    /\ pass_kind' = kind
    /\ seq' = s
    /\ idx' = IF idx > 0 THEN idx ELSE 1
    /\ num_done' = n
    /\ pos' = n
    /\ msg' = None
    /\ invoked' = <<>>
    /\ ret' = Running

\* A call verify(s, (n, total)): the statements before the for loop.
EnterVerify(kind, s, n) ==
    /\ pass_kind' = kind
    /\ seq' = s
    /\ idx' = 1
    /\ num_done' = n
    /\ pos' = n
    /\ msg' = None
    /\ invoked' = <<>>
    /\ ret' = Running

\* Mutant: the loop looks at the quit flag and abandons the pass.
VerifyInvoke_StopsOnQuit ==
    /\ pc = "verify"
    /\ idx <= Len(seq)
    /\ IF should_quit
       THEN /\ pc' = "check_quit"
            /\ UNCHANGED <<idx, pos, msg, invoked, ret>>
       ELSE LET e == seq[idx]
                ok == unwrap_or_false(compile_result(e))
            IN  /\ invoked' = Append(invoked,
                                     [exercise |-> e,
                                      outcome |-> InvocationOutcome(e)])
                /\ IF ~ok
                   THEN /\ ret' = Err(e)
                        /\ pc' = "returned"
                        /\ UNCHANGED <<idx, pos, msg>>
                   ELSE /\ msg' = Some(percentage(num_done))
                        /\ pos' = pos + 1
                        /\ idx' = idx + 1
                        /\ UNCHANGED <<ret, pc>>
    /\ UNCHANGED auxVars
    /\ UNCHANGED <<envVars, event, outcome, pass_kind, seq, num_done,
                   sharedVars, shell_pc>>

\* One iteration of the for loop: the toolchain runs on seq[idx]; a false
\* result returns Err(exercise), a true one advances the bar.
VerifyInvoke ==
    /\ pc = "verify"
    /\ idx <= Len(seq)
    /\ LET e == seq[idx]
           ok == unwrap_or_false(compile_result(e))
       IN  /\ invoked' = Append(invoked,
                                [exercise |-> e, outcome |-> InvocationOutcome(e)])
           /\ IF ~ok
              THEN /\ ret' = Err(e)
                   /\ pc' = "returned"
                   /\ UNCHANGED <<idx, pos, msg>>
              ELSE /\ msg' = Some(percentage(num_done))
                   /\ pos' = pos + 1
                   /\ idx' = idx + 1
                   /\ UNCHANGED <<ret, pc>>
    /\ UNCHANGED auxVars
    /\ UNCHANGED <<envVars, event, outcome, pass_kind, seq, num_done,
                   sharedVars, shell_pc>>

\* The iterator is exhausted: Ok(()).
VerifyReturnOk ==
    /\ pc = "verify"
    /\ idx > Len(seq)
    /\ ret' = Ok
    /\ pc' = "returned"
    /\ UNCHANGED auxVars
    /\ UNCHANGED <<envVars, event, outcome, pass_kind, seq, idx, num_done, pos,
                   msg, invoked, sharedVars, shell_pc>>

\* The frame of verify and the arguments built for it are gone once the
\* caller has matched on the result; ret stays as the record of the latest
\* pass.
DropFrame ==
    /\ pass_kind' = "none"
    /\ seq' = <<>>
    /\ idx' = 0
    /\ num_done' = 0
    /\ pos' = 0
    /\ msg' = None
    /\ invoked' = <<>>
    /\ UNCHANGED ret

\* ------------------------------------------------------------------ watch
\* Mutant: the error of the watcher is dropped instead of returned.
WatchStart_IgnoresError ==
    /\ pc = "start"
    /\ should_quit' = FALSE
    /\ \E started \in BOOLEAN :
          watcher' = IF started THEN "watching" ELSE "failed"
    /\ EnterVerify("initial", ManifestOrder, 0)
    /\ pc' = "verify"
    /\ UNCHANGED auxVars
    /\ UNCHANGED <<compiles, marker, queue, event, outcome, current_hint, lock,
                   shell_pc>>

\* channel(), should_quit, Watcher::new and watcher.watch: on an error `?`
\* returns it; otherwise clear_screen and the initial
\* verify(exercises.iter(), (0, exercises.len())) is entered.
WatchStart ==
    /\ pc = "start"
    /\ should_quit' = FALSE
    /\ \E started \in BOOLEAN :
          IF started
          THEN /\ watcher' = "watching"
               /\ EnterVerify("initial", ManifestOrder, 0)
               /\ pc' = "verify"
               /\ UNCHANGED outcome
          ELSE /\ watcher' = "failed"
               /\ outcome' = "Err"
               /\ pc' = "error"
               /\ UNCHANGED frameVars
    /\ UNCHANGED auxVars
    /\ UNCHANGED <<compiles, marker, queue, event, current_hint, lock,
                   shell_pc>>

\* Mutant: the Ok arm of the initial pass falls through into the watch loop.
InitialOk_KeepsWatching ==
    /\ pc = "returned"
    /\ pass_kind = "initial"
    /\ ret = Ok
    /\ shell_pc' = "read"
    /\ pc' = "recv"
    /\ DropFrame
    /\ UNCHANGED auxVars
    /\ UNCHANGED <<envVars, event, outcome, sharedVars>>

\* Initial pass, Ok(_) => return Ok(WatchStatus::Finished).
InitialOk ==
    /\ pc = "returned"
    /\ pass_kind = "initial"
    /\ ret = Ok
    /\ outcome' = "Finished"
    /\ pc' = "done"
    /\ DropFrame
    /\ UNCHANGED auxVars
    /\ UNCHANGED <<envVars, event, sharedVars, shell_pc>>

\* Initial pass, Err(exercise): the Mutex is created around the hint and
\* spawn_watch_shell starts the shell thread.
InitialErr ==
    /\ pc = "returned"
    /\ pass_kind = "initial"
    /\ ret # Ok
    /\ current_hint' = Some(to_owned_hint(ret.exercise))
    /\ shell_pc' = "read"
    /\ pc' = "recv"
    /\ DropFrame
    /\ UNCHANGED auxVars
    /\ UNCHANGED <<envVars, event, outcome, lock, should_quit>>

\* rx.recv_timeout returns Ok(event).
RecvEvent ==
    /\ pc = "recv"
    /\ queue > 0
    /\ queue' = queue - 1
    /\ \E ev \in Events : event' = Some(ev)
    /\ pc' = "event"
    /\ UNCHANGED auxVars
    /\ UNCHANGED <<compiles, marker, watcher, outcome, frameVars, sharedVars,
                   shell_pc>>

\* Mutant: the guard of the hint is taken before verify is called and held
\* across the pass.
MatchEvent_LocksBeforeVerify ==
    /\ pc = "event"
    /\ LET ev == CHOOSE x \in event : TRUE
       IN  IF actionable(ev)
           THEN /\ lock = "free"
                /\ lock' = "coordinator"
                /\ EnterVerify("event", pending_exercises(ev.path), count_done)
                /\ pc' = "verify"
           ELSE /\ pc' = "check_quit"
                /\ UNCHANGED <<frameVars, lock>>
    /\ event' = None
    /\ UNCHANGED auxVars
    /\ UNCHANGED <<envVars, outcome, current_hint, should_quit, shell_pc>>

\* Mutant: the events that queued up meanwhile are thrown away before the
\* pass.
MatchEvent_DrainsQueue ==
    /\ pc = "event"
    /\ LET ev == CHOOSE x \in event : TRUE
       IN  IF actionable(ev)
           THEN /\ EnterVerify("event", pending_exercises(ev.path), count_done)
                /\ pc' = "verify"
                /\ queue' = 0
           ELSE /\ pc' = "check_quit"
                /\ UNCHANGED <<frameVars, queue>>
    /\ event' = None
    /\ UNCHANGED auxVars
    /\ UNCHANGED <<compiles, marker, watcher, outcome, sharedVars, shell_pc>>

\* The match on the event: an actionable one enters verify on the reordered
\* sequence with the recomputed progress; any other falls through to the
\* quit check.
MatchEvent ==
    /\ pc = "event"
    /\ LET ev == CHOOSE x \in event : TRUE
       IN  IF actionable(ev)
           THEN /\ EnterVerify("event", pending_exercises(ev.path), count_done)
                /\ pc' = "verify"
           ELSE /\ pc' = "check_quit"
                /\ UNCHANGED frameVars
    /\ event' = None
    /\ UNCHANGED auxVars
    /\ UNCHANGED <<envVars, outcome, sharedVars, shell_pc>>

\* Mutant: a timeout runs the pending exercises again.
RecvTimeout_Retries ==
    /\ pc = "recv"
    /\ queue = 0
    /\ EnterVerify("event", SelectSeq(ManifestOrder, LAMBDA e : ~looks_done(e)),
                   count_done)
    /\ pc' = "verify"
    /\ UNCHANGED <<envVars, event, outcome, sharedVars, shell_pc, auxVars>>

\* rx.recv_timeout returns Err(Timeout): nothing arrived within one second.
RecvTimeout ==
    /\ pc = "recv"
    /\ queue = 0
    /\ pc' = "check_quit"
    /\ UNCHANGED auxVars
    /\ UNCHANGED <<envVars, event, outcome, frameVars, sharedVars, shell_pc>>

\* Mutant: an error of the channel ends the session.
RecvDisconnected_EndsSession ==
    /\ pc = "recv"
    /\ queue = 0
    /\ watcher \in {"watching", "dead"}
    /\ watcher' = "dead"
    /\ outcome' = "Unfinished"
    /\ pc' = "done"
    /\ UNCHANGED auxVars
    /\ UNCHANGED <<compiles, marker, queue, event, frameVars, sharedVars,
                   shell_pc>>

\* rx.recv_timeout returns Err(Disconnected): the watcher's thread has ended
\* and dropped tx, the channel is empty; "watch error" is printed. From then
\* on nothing is sent.
RecvDisconnected ==
    /\ pc = "recv"
    /\ queue = 0
    /\ watcher \in {"watching", "dead"}
    /\ watcher' = "dead"
    /\ pc' = "check_quit"
    /\ UNCHANGED auxVars
    /\ UNCHANGED <<compiles, marker, queue, event, outcome, frameVars,
                   sharedVars, shell_pc>>

\* Mutant: the session ends Finished whatever the pass returned.
EventOk_AnyResult ==
    /\ pc = "returned"
    /\ pass_kind = "event"
    /\ outcome' = "Finished"
    /\ pc' = "done"
    /\ DropFrame
    /\ UNCHANGED auxVars
    /\ UNCHANGED <<envVars, event, sharedVars, shell_pc>>

\* Pass of the event arm, Ok(_) => return Ok(WatchStatus::Finished).
EventOk ==
    /\ pc = "returned"
    /\ pass_kind = "event"
    /\ ret = Ok
    /\ outcome' = "Finished"
    /\ pc' = "done"
    /\ DropFrame
    /\ UNCHANGED auxVars
    /\ UNCHANGED <<envVars, event, sharedVars, shell_pc>>

\* Mutant: the hint is written without waiting for the lock.
EventErrLock_NoLock ==
    /\ pc = "returned"
    /\ pass_kind = "event"
    /\ ret # Ok
    /\ pc' = "write_hint"
    /\ DropFrame
    /\ UNCHANGED auxVars
    /\ UNCHANGED <<envVars, event, outcome, current_hint, lock, should_quit,
                   shell_pc>>

\* Pass of the event arm, Err(exercise): failed_exercise_hint.lock().
EventErrLock ==
    /\ pc = "returned"
    /\ pass_kind = "event"
    /\ ret # Ok
    /\ lock = "free"
    /\ lock' = "coordinator"
    /\ pc' = "write_hint"
    /\ DropFrame
    /\ UNCHANGED auxVars
    /\ UNCHANGED <<envVars, event, outcome, current_hint, should_quit,
                   shell_pc>>

\* Mutant: the Err arm releases the lock without writing the new hint.
EventErrWrite_KeepsHint ==
    /\ pc = "write_hint"
    /\ lock' = "free"
    /\ pc' = "check_quit"
    /\ UNCHANGED auxVars
    /\ UNCHANGED <<envVars, event, outcome, frameVars, current_hint,
                   should_quit, shell_pc>>

\* *failed_exercise_hint = Some(to_owned_hint(exercise)); the guard drops.
EventErrWrite ==
    /\ pc = "write_hint"
    /\ current_hint' = Some(to_owned_hint(ret.exercise))
    /\ lock' = "free"
    /\ pc' = "check_quit"
    /\ UNCHANGED auxVars
    /\ UNCHANGED <<envVars, event, outcome, frameVars, should_quit, shell_pc>>

\* Mutant: the quit check returns the wrong status.
CheckQuit_ReturnsFinished ==
    /\ pc = "check_quit"
    /\ IF quit_observed
       THEN /\ outcome' = "Finished"
            /\ pc' = "done"
       ELSE /\ pc' = "recv"
            /\ UNCHANGED outcome
    /\ UNCHANGED auxVars
    /\ UNCHANGED <<envVars, event, frameVars, sharedVars, shell_pc>>

\* if should_quit.load() { return Ok(WatchStatus::Unfinished) }, else loop.
CheckQuit ==
    /\ pc = "check_quit"
    /\ IF quit_observed
       THEN /\ outcome' = "Unfinished"
            /\ pc' = "done"
       ELSE /\ pc' = "recv"
            /\ UNCHANGED outcome
    /\ UNCHANGED auxVars
    /\ UNCHANGED <<envVars, event, frameVars, sharedVars, shell_pc>>

\* ------------------------------------------------------------------- main
\* Subcommands::Verify: verify(&exercises, (0, exercises.len())).
MainVerify ==
    /\ pc = "start"
    /\ EnterVerify("command", ManifestOrder, 0)
    /\ pc' = "verify"
    /\ UNCHANGED <<envVars, event, outcome, sharedVars, shell_pc, auxVars>>

\* Mutant: the result of verify is dropped, main returns normally.
MainVerifyExit_AlwaysZero ==
    /\ pc = "returned"
    /\ pass_kind = "command"
    /\ exit_status' = Some(0)
    /\ pc' = "exited"
    /\ UNCHANGED <<envVars, event, outcome, frameVars, sharedVars, shell_pc,
                   first_run, untouched>>

\* .unwrap_or_else(|_| std::process::exit(1)); on Ok main returns.
MainVerifyExit ==
    /\ pc = "returned"
    /\ pass_kind = "command"
    /\ exit_status' = Some(IF ret = Ok THEN 0 ELSE 1)
    /\ pc' = "exited"
    /\ UNCHANGED <<envVars, event, outcome, frameVars, sharedVars, shell_pc,
                   first_run, untouched>>

\* Subcommands::Watch, the match on what watch returned: Err exits with 1,
\* Finished and Unfinished print their message and main returns.
MainWatchExit ==
    /\ pc \in {"done", "error"}
    /\ exit_status = None
    /\ exit_status' = Some(IF outcome = "Err" THEN 1 ELSE 0)
    /\ UNCHANGED <<envVars, event, pc, outcome, frameVars, sharedVars,
                   shell_pc, first_run, untouched>>

\* ------------------------------------------------------------------ shell
\* "hint": failed_exercise_hint.lock() in the scrutinee of the if let.
ShellHintLock ==
    /\ Live
    /\ shell_pc = "read"
    /\ lock = "free"
    /\ lock' = "shell"
    /\ shell_pc' = "hint"
    /\ UNCHANGED auxVars
    /\ UNCHANGED <<envVars, event, pc, outcome, frameVars, current_hint,
                   should_quit>>

\* println!("{hint}") when Some; the guard drops at the end of the if let.
ShellHintPrint ==
    /\ Live
    /\ shell_pc = "hint"
    /\ lock' = "free"
    /\ shell_pc' = "read"
    /\ UNCHANGED auxVars
    /\ UNCHANGED <<envVars, event, pc, outcome, frameVars, current_hint,
                   should_quit>>

\* Mutant: the shell thread leaves its loop after "quit".
ShellQuit_Breaks ==
    /\ Live
    /\ shell_pc = "read"
    /\ should_quit' = TRUE
    /\ shell_pc' = "off"
    /\ UNCHANGED auxVars
    /\ UNCHANGED <<envVars, event, pc, outcome, frameVars, current_hint, lock>>

\* "quit": should_quit.store(true); "Bye!"; the loop reads on.
ShellQuit ==
    /\ Live
    /\ shell_pc = "read"
    /\ should_quit' = TRUE
    /\ UNCHANGED auxVars
    /\ UNCHANGED <<envVars, event, pc, outcome, frameVars, current_hint, lock,
                   shell_pc>>

\* "clear", "help", any other input, and a read error: output only.
ShellOther ==
    /\ Live
    /\ shell_pc = "read"
    /\ \E input \in {"clear", "help", "unknown", "read error"} : TRUE
    /\ UNCHANGED vars

\* ------------------------------------------------------------------- Next
Main ==
    \/ MainVerify
    \/ MainVerifyExit
    \/ MainWatchExit

Coordinator ==
    \/ WatchStart
    \/ VerifyInvoke
    \/ VerifyReturnOk
    \/ InitialOk
    \/ InitialErr
    \/ RecvEvent
    \/ MatchEvent
    \/ RecvTimeout
    \/ RecvDisconnected
    \/ EventOk
    \/ EventErrLock
    \/ EventErrWrite
    \/ CheckQuit

Shell ==
    \/ ShellHintLock
    \/ ShellHintPrint
    \/ ShellQuit
    \/ ShellOther

Environment ==
    \/ UserEdit
    \/ WatcherSend

Next == Main \/ Coordinator \/ Shell \/ Environment

Spec == Init /\ [][Next]_vars

TypeOK ==
    /\ compiles \in [ExerciseIds -> BOOLEAN]
    /\ marker \in [ExerciseIds -> BOOLEAN]
    /\ queue \in 0 .. MaxQueue
    /\ watcher \in {"none", "failed", "watching", "dead"}
    /\ event \in {None} \cup {Some(ev) : ev \in Events}
    /\ pc \in {"start", "verify", "returned", "recv", "event", "write_hint",
               "check_quit", "done", "error", "exited"}
    /\ outcome \in {"none", "Finished", "Unfinished", "Err"}
    /\ pass_kind \in {"none", "command", "initial", "event", "rerun"}
    /\ idx \in 0 .. NumExercises + 1
    /\ lock \in {"free", "coordinator", "shell"}
    /\ should_quit \in BOOLEAN
    /\ shell_pc \in {"off", "read", "hint"}
    /\ exit_status \in {None, Some(0), Some(1)}
    /\ untouched \in BOOLEAN

\* The coordinator thread always gets to run and a toolchain run returns;
\* the shell releases the Mutex after printing, and since it waits for input
\* between two hint commands a blocked lock() is served.
CoordinatorProgress ==
    \/ Main
    \/ WatchStart
    \/ VerifyInvoke
    \/ VerifyReturnOk
    \/ InitialOk
    \/ InitialErr
    \/ RecvEvent
    \/ MatchEvent
    \/ RecvTimeout
    \/ RecvDisconnected
    \/ EventOk
    \/ EventErrWrite
    \/ CheckQuit

FairSpec ==
    /\ Spec
    /\ WF_vars(CoordinatorProgress)
    /\ SF_vars(EventErrLock)
    /\ WF_vars(ShellHintPrint)

\* ------------------------------------------------------- verify, run twice
\* verify called on its own, twice on the same arguments: the sequences are
\* the ones its callers build, the files have any state and may be edited at
\* any moment.
RerunSeqs == {ManifestOrder} \cup {pending_exercises(p) : p \in Paths}

RerunInit ==
    /\ compiles \in [ExerciseIds -> BOOLEAN]
    /\ marker \in [ExerciseIds -> BOOLEAN]
    /\ queue = 0
    /\ watcher = "none"
    /\ event = None
    /\ pc = "verify"
    /\ outcome = "none"
    /\ pass_kind = "rerun"
    /\ seq \in RerunSeqs
    /\ idx = 1
    /\ num_done \in {0, count_done}
    /\ pos = num_done
    /\ msg = None
    /\ invoked = <<>>
    /\ ret = Running
    /\ current_hint = None
    /\ lock = "free"
    /\ should_quit = FALSE
    /\ shell_pc = "off"
    /\ exit_status = None
    /\ first_run = None
    /\ untouched = TRUE

\* The first call has returned; its result is kept for comparison and verify
\* is called again with the same arguments.
Rerun ==
    /\ pc = "returned"
    /\ first_run = None
    /\ first_run' = Some([ret |-> ret, invoked |-> invoked])
    /\ EnterVerify(pass_kind, seq, num_done)
    /\ pc' = "verify"
    /\ UNCHANGED <<envVars, event, outcome, sharedVars, shell_pc, exit_status,
                   untouched>>

\* The learner saves a changed exercise file before, during or after a run.
RerunEdit ==
    /\ \E e \in ExerciseIds, c \in BOOLEAN, m \in BOOLEAN :
          /\ <<c, m>> # <<compiles[e], marker[e]>>
          /\ compiles' = [compiles EXCEPT ![e] = c]
          /\ marker' = [marker EXCEPT ![e] = m]
    /\ untouched' = FALSE
    /\ UNCHANGED <<queue, watcher, event, pc, outcome, frameVars, sharedVars,
                   shell_pc, exit_status, first_run>>

RerunNext ==
    \/ VerifyInvoke
    \/ VerifyReturnOk
    \/ Rerun
    \/ RerunEdit

RerunSpec == RerunInit /\ [][RerunNext]_vars

\* ----------------------------------------------------------------- claims
\* The exercises handed to the toolchain in this pass, in order.
InvokedExercises == [i \in 1 .. Len(invoked) |-> invoked[i].exercise]

\* The positions of this pass whose invocation did not end in Done.
FailedAt == {i \in 1 .. Len(invoked) : invoked[i].outcome # "Done"}

\* The elements of a set of numbers in ascending order.
Ascending(S) ==
    CHOOSE s \in [1 .. Cardinality(S) -> S] :
        \A i, j \in 1 .. Cardinality(S) : i < j => s[i] < s[j]

\* The received event, and actionability as the specification words it.
TheEvent == CHOOSE ev \in event : TRUE

IsActionable(ev) ==
    /\ ev.kind \in {"Create", "Write", "Chmod"}
    /\ ev.path.ext = "cairo"
    /\ ev.exists

\* The sequence the specification prescribes for a change of path p.
ExpectedSeq(p) ==
    LET hit == {e \in ExerciseIds : exercises[e].path = p}
        rest == {e \in ExerciseIds : marker[e] /\ exercises[e].path # p}
    IN  (IF hit = {} THEN <<>> ELSE <<CHOOSE e \in hit : TRUE>>)
            \o Ascending(rest)

\* C1: when every exercise handed to the toolchain passed, verify returns
\* Ok(()) and has invoked the toolchain exactly once per exercise of the
\* sequence, in the order of the sequence; at every moment of a pass the
\* invocations made so far are a prefix of the sequence.
C1_AllPassReturnsOk ==
    /\ pc \in {"verify", "returned"} =>
          InvokedExercises = SubSeq(seq, 1, Len(invoked))
    /\ (pc = "returned" /\ FailedAt = {}) =>
          (ret = Ok /\ InvokedExercises = seq)

C1_Witness ==
    /\ pc = "returned"
    /\ ret = Ok
    /\ Len(seq) = NumExercises
    /\ InvokedExercises = seq
    /\ \A i \in 1 .. Len(invoked) : invoked[i].outcome = "Done"

\* C2: when the first failing exercise is at position k, verify returns Err
\* of exactly that exercise and the toolchain was invoked for positions
\* 1..k only, each once; no exercise is invoked after a failure.
C2_FailFast ==
    /\ pc = "verify" => FailedAt = {}
    /\ (pc = "returned" /\ FailedAt # {}) =>
          LET k == CHOOSE i \in FailedAt : \A j \in FailedAt : i <= j
          IN  /\ ret = Err(seq[k])
              /\ Len(invoked) = k
              /\ InvokedExercises = SubSeq(seq, 1, k)

C2_Witness ==
    /\ pc = "returned"
    /\ Len(seq) > 1
    /\ Len(invoked) = 1
    /\ invoked[1].outcome = "CompileFailure"
    /\ ret = Err(seq[1])

\* C3: verify returns Ok(()) only if every exercise of the sequence was
\* found Done; an exercise whose run succeeds while the marker is still
\* there makes verify return Err of that exercise, and it is the last one
\* attempted.
C3_OkOnlyIfAllDone ==
    pc = "returned" =>
        /\ ret = Ok =>
              \A j \in 1 .. Len(seq) :
                  \E i \in 1 .. Len(invoked) :
                      invoked[i] = [exercise |-> seq[j], outcome |-> "Done"]
        /\ \A i \in 1 .. Len(invoked) :
              invoked[i].outcome = "StillPending" =>
                  (ret = Err(invoked[i].exercise) /\ i = Len(invoked))

C3_Witness ==
    /\ pc = "returned"
    /\ Len(seq) > 1
    /\ Len(invoked) = 1
    /\ invoked[1].outcome = "StillPending"
    /\ ret = Err(seq[1])

C5_NonActionableDiscarded ==
    [][(pc = "event" /\ ~IsActionable(TheEvent)) =>
          /\ pc' \in {"event", "check_quit"}
          /\ current_hint' = current_hint
          /\ outcome' = outcome
          /\ frameVars' = frameVars]_vars

C5_Witness ==
    /\ pc = "event"
    /\ TheEvent.kind = "Write"
    /\ TheEvent.path = exercises[1].path
    /\ ~TheEvent.exists
    /\ marker[1]

\* C6: while the session is watching and the coordinator is between passes,
\* current_hint is present and is the hint of the exercise at which the
\* latest pass failed.
C6_HintOfLatestFailure ==
    (shell_pc # "off" /\ outcome = "none"
        /\ pc \in {"recv", "event", "check_quit"}) =>
        /\ ret \notin {Ok, Running}
        /\ current_hint = {exercises[ret.exercise].hint}

C6_Witness ==
    /\ pc = "check_quit"
    /\ outcome = "none"
    /\ shell_pc = "read"
    /\ compiles[1] /\ ~marker[1]
    /\ ret = Err(NumExercises)
    /\ current_hint = {exercises[NumExercises].hint}

\* C7 as stated: once quit_requested is set the session ends with outcome
\* Unfinished.
C7_Original == should_quit ~> (outcome = "Unfinished")

\* C7 as amended: once quit_requested is set the session ends, whether or
\* not a change event ever arrives: with outcome Unfinished or, when a pass
\* that completes before the quit check returns Ok, with outcome Finished.
C7_QuitTerminates == should_quit ~> (pc = "done")

C7_Witness ==
    /\ should_quit
    /\ pc = "done"
    /\ outcome = "Unfinished"
    /\ queue = 0

\* C8 as stated: a session that ends after quit_requested was set ends with
\* outcome Unfinished.
C8_Original == (should_quit /\ pc = "done") => outcome = "Unfinished"

\* C8 as amended: with quit_requested set, the quit check ends the session
\* with outcome Unfinished whatever the files are; the only other way the
\* session ends is a pass that returns Ok before that check.
C8_QuitCheckEndsUnfinished ==
    [][should_quit =>
          /\ (pc = "check_quit" /\ pc' # pc) =>
                (pc' = "done" /\ outcome' = "Unfinished")
          /\ (outcome' # outcome /\ outcome' # "Unfinished") =>
                (pc = "returned" /\ ret = Ok /\ outcome' = "Finished")]_vars

C8_Witness ==
    /\ should_quit
    /\ outcome = "Unfinished"
    /\ \A e \in ExerciseIds : compiles[e] /\ ~marker[e]

\* C9: the initial pass runs over all exercises in manifest order with
\* progress (0, total); when it returns Ok the session ends at once with
\* outcome Finished, the shell never started and the channel never read.
C9_InitialOkFinishes ==
    /\ []((pass_kind = "initial" /\ pc \in {"verify", "returned"}) =>
            (seq = ManifestOrder /\ num_done = 0 /\ shell_pc = "off"))
    /\ []((shell_pc = "off" /\ pass_kind # "command") =>
            (/\ pc \in {"start", "verify", "returned", "done", "error"}
             /\ event = {}
             /\ pc = "done" => outcome = "Finished"))
    /\ [][(pc = "returned" /\ pass_kind = "initial" /\ ret = Ok /\ pc' # pc) =>
            (/\ pc' = "done"
             /\ outcome' = "Finished"
             /\ shell_pc' = "off"
             /\ queue' = queue)]_vars

C9_Witness ==
    /\ pc = "done"
    /\ outcome = "Finished"
    /\ shell_pc = "off"
    /\ ret = Ok
    /\ queue > 0

\* C10: when the watcher cannot be started, watch returns the error: no
\* Finished or Unfinished outcome, no verification pass, no shell.
C10_WatchStartFailureIsFatal ==
    watcher = "failed" =>
        /\ pc = "error"
        /\ outcome = "Err"
        /\ pass_kind = "none"
        /\ invoked = <<>>
        /\ ret = Running
        /\ shell_pc = "off"

C10_Witness ==
    /\ watcher = "failed"
    /\ pc = "error"
    /\ outcome = "Err"

\* C11: exit status of the process. The verify command exits with 1 when
\* its pass failed and with 0 when it returned Ok; a watch session whose
\* watcher could not be started exits with 1; a watch session that ended
\* Finished or Unfinished exits with 0.
C11_ExitStatus ==
    /\ exit_status # None => pc \in {"done", "error", "exited"}
    /\ pc = "exited" =>
          /\ pass_kind = "command"
          /\ ret = Ok => exit_status = {0}
          /\ ret # Ok => (ret.tag = "Err" /\ exit_status = {1})
    /\ (exit_status # None /\ watcher = "failed") => exit_status = {1}
    /\ (exit_status # None /\ outcome \in {"Finished", "Unfinished"}) =>
          exit_status = {0}
    /\ (exit_status # None /\ pc # "exited") =>
          (watcher = "failed" \/ outcome \in {"Finished", "Unfinished"})

C11_Witness ==
    /\ pc = "exited"
    /\ pass_kind = "command"
    /\ ret = Err(NumExercises)
    /\ exit_status = {1}

\* The first run, once verify has been called a second time.
FirstRun == CHOOSE r \in first_run : TRUE

ShellStep ==
    /\ shell_pc # "off"
    /\ \/ shell_pc' # shell_pc
       \/ should_quit' # should_quit
       \/ (lock' = "shell" /\ lock # "shell")
       \/ (lock = "shell" /\ lock' # "shell")

\* C13: a pass starts only at the start of the program or on the receipt of
\* one actionable event, which that pass consumes; a receive that delivers
\* no event (timeout, watcher error) and a shell command start no pass and
\* leave current_hint alone; the quit check ends the session only when
\* quit_requested is set.
C13_NoAutomaticRetry ==
    [][/\ (pc # "verify" /\ pc' = "verify") =>
             /\ pc = "start" \/ (pc = "event" /\ IsActionable(TheEvent))
             /\ event' = None
             /\ invoked' = <<>>
             /\ idx' = 1
       /\ (pc = "recv" /\ pc' # "event") =>
             /\ pc' \in {"recv", "check_quit"}
             /\ current_hint' = current_hint
             /\ outcome' = outcome
             /\ frameVars' = frameVars
       /\ (pc = "check_quit" /\ ~should_quit) =>
             /\ pc' \in {"check_quit", "recv"}
             /\ current_hint' = current_hint
             /\ outcome' = outcome
             /\ frameVars' = frameVars
       /\ ShellStep =>
             /\ pc' = pc
             /\ current_hint' = current_hint
             /\ outcome' = outcome
             /\ frameVars' = frameVars]_vars

C13_Witness ==
    /\ watcher = "dead"
    /\ pc = "recv"
    /\ ~should_quit
    /\ outcome = "none"
    /\ pass_kind = "none"
    /\ ret = Err(1)
    /\ current_hint = {exercises[1].hint}
    /\ compiles[1] /\ ~marker[1]

\* The positions of the coordinator after the receive of an iteration.
PastReceive == {"verify", "returned", "write_hint", "check_quit", "done"}

\* Once quit_requested is set the coordinator, having left the receive, never
\* comes back to it.
NoSecondReceive ==
    (should_quit /\ pc \in PastReceive) => pc' \in PastReceive

\* A pass that runs is left only by verify returning: Err at the exercise
\* just invoked, or Ok with the sequence exhausted; quit_requested changes
\* nothing in it.
PassNotInterrupted ==
    pc = "verify" =>
        /\ pc' \in {"verify", "returned"}
        /\ seq' = seq
        /\ pc' = "returned" =>
              \/ ret' = Ok /\ idx > Len(seq) /\ invoked' = invoked
              \/ /\ idx <= Len(seq)
                 /\ ret' = Err(seq[idx])
                 /\ Len(invoked') = Len(invoked) + 1
        /\ pc' = "verify" => Len(invoked') \in {Len(invoked), Len(invoked) + 1}

\* C14 as stated: after quit_requested is set there is at most one more
\* receive, a running pass is completed, and no new pass begins.
C14_Original ==
    [][/\ NoSecondReceive
       /\ PassNotInterrupted
       /\ should_quit => ~(pc # "verify" /\ pc' = "verify")]_vars

\* C14 as amended: after quit_requested is set the coordinator makes at
\* most one more receive and completes the pass in flight, or the one pass
\* that this last receive starts when it delivers an actionable event, and
\* then ends the session; a running pass is never interrupted.
C14_BoundedQuitLatency ==
    [][/\ NoSecondReceive
       /\ PassNotInterrupted
       /\ (should_quit /\ pc # "verify" /\ pc' = "verify") =>
             (pc = "event" /\ IsActionable(TheEvent))
       /\ (should_quit /\ pc = "recv") => pc' \in {"recv", "event", "check_quit"}
       /\ (should_quit /\ pc = "event") =>
             pc' \in {"event", "verify", "check_quit"}]_vars

C14_Witness ==
    /\ should_quit
    /\ pc = "done"
    /\ outcome = "Unfinished"
    /\ ret = Err(NumExercises)
    /\ current_hint = {exercises[NumExercises].hint}
    /\ \A e \in ExerciseIds : e < NumExercises => (compiles[e] /\ ~marker[e])

\* C15: a step of the shell writes nothing of the shared state except
\* quit_requested, which it only ever sets to true; hint takes and gives
\* back the lock and changes no value; quit leaves current_hint and the lock
\* alone, so a hint command after quit shows the same hint; after every
\* command the shell is still in its loop.
C15_ShellWritesOnlyQuit ==
    [][ShellStep =>
          /\ current_hint' = current_hint
          /\ should_quit' # should_quit =>
                (should_quit' /\ shell_pc = "read" /\ shell_pc' = "read"
                    /\ lock' = lock)
          /\ shell_pc' \in {"read", "hint"}
          /\ (shell_pc = "read" /\ shell_pc' = "hint") =>
                (lock = "free" /\ lock' = "shell")
          /\ (shell_pc = "hint" /\ shell_pc' = "read") =>
                (lock = "shell" /\ lock' = "free")
          /\ <<envVars, event, pc, outcome, frameVars, exit_status>>' =
                <<envVars, event, pc, outcome, frameVars, exit_status>>]_vars

\* A hint command is being served after quit, before the session has ended.
C15_Witness ==
    /\ should_quit
    /\ shell_pc = "hint"
    /\ lock = "shell"
    /\ pc = "recv"
    /\ outcome = "none"
    /\ current_hint = {exercises[1].hint}

C17_ShortCriticalSection ==
    /\ lock = "coordinator" <=> pc = "write_hint"
    /\ lock = "shell" <=> shell_pc = "hint"
    /\ (Live /\ lock = "coordinator") => ENABLED EventErrWrite
    /\ (Live /\ lock = "shell") => ENABLED ShellHintPrint
    /\ (Live /\ shell_pc = "read"
           /\ pc \in {"verify", "returned", "recv", "event", "check_quit"}) =>
          ENABLED ShellHintLock

\* A hint command is served in the middle of a pass.
C17_Witness ==
    /\ pc = "verify"
    /\ pass_kind = "event"
    /\ Len(invoked) >= 1
    /\ shell_pc = "hint"
    /\ lock = "shell"

\* C18: the coordinator writing the hint and the shell reading it are never
\* in their sections at the same time; the value does not change while the
\* shell reads it, so a hint command shows a value some update committed
\* whole: the hint is only ever replaced, entirely, by the coordinator
\* holding the lock (or set before the shell exists).
C18_ExclusiveHintAccess ==
    /\ [](~(pc = "write_hint" /\ shell_pc = "hint"))
    /\ [](shell_pc = "hint" =>
            current_hint \in {Some(exercises[e].hint) : e \in ExerciseIds})
    /\ [][/\ shell_pc = "hint" => current_hint' = current_hint
          /\ current_hint' # current_hint =>
                /\ \/ shell_pc = "off"
                   \/ (pc = "write_hint" /\ lock = "coordinator"
                           /\ lock' = "free")
                /\ ret # Ok
                /\ current_hint' = Some(exercises[ret.exercise].hint)]_vars

\* The shell shows the committed hint while the coordinator, back from a
\* pass that failed at another exercise, waits for the lock.
C18_Witness ==
    /\ shell_pc = "hint"
    /\ lock = "shell"
    /\ pc = "returned"
    /\ pass_kind = "event"
    /\ ret = Err(NumExercises)
    /\ current_hint = {exercises[1].hint}

\* The invocations of this pass that returned a definitive success.
Successes == {i \in 1 .. Len(invoked) : invoked[i].outcome = "Done"}

\* The position of the bar is the progress the pass was started with plus
\* one for every success, nothing for a failure.
PositionCountsSuccesses ==
    pc \in {"verify", "returned"} => pos = num_done + Cardinality(Successes)

\* C19 as stated: during a pass the position advances by one per success
\* and not for the failing exercise, and the percentage shown after a
\* success is position / total, the same completed count.
C19_Original ==
    /\ PositionCountsSuccesses
    /\ (pc \in {"verify", "returned"} /\ msg # None) =>
          msg = Some((pos * 1000) \div Total)

\* The exercises of a sequence.
Range(s) == {s[i] : i \in 1 .. Len(s)}

C21_Original ==
    /\ [](pc \in {"verify", "returned"} => pos <= Total)
    /\ [][(pc = "event" /\ pc' = "verify") =>
             num_done' + Len(seq') <= Total]_vars

\* A sequence without repeated elements.
NoDuplicates(s) == \A i, j \in 1 .. Len(s) : s[i] = s[j] => i = j

C23_QuitMonotonic ==
    /\ [](shell_pc = "off" => ~should_quit)
    /\ [](outcome = "Unfinished" => should_quit)
    /\ [][/\ should_quit => should_quit'
          /\ (~should_quit /\ should_quit') =>
                /\ shell_pc = "read"
                /\ shell_pc' = "read"
                /\ pc' = pc
                /\ outcome' = outcome
          /\ (outcome' = "Unfinished" /\ outcome # "Unfinished") =>
                (pc = "check_quit" /\ should_quit)]_vars

\* The flag, set during a pass, is still set after the pass has failed and
\* while the coordinator writes the new hint.
C23_Witness ==
    /\ should_quit
    /\ pc = "write_hint"
    /\ lock = "coordinator"
    /\ outcome = "none"
====
